---- MODULE Spec2Model ----
(***************************************************************************)
(* Model of server.py, the PKB MCP server: five tool handlers (add_til,    *)
(* add_prompt, add_pattern, search_pkb, list_entries) over a GitHub-backed *)
(* repository.  Every remote call of a handler that writes is one step, so *)
(* that two clients working on the same repository interleave at the       *)
(* granularity of the remote calls.                                        *)
(*                                                                         *)
(* Text is a sequence of one-character strings, or of string tokens where  *)
(* the characters do not matter.  Python's None is the empty sequence and  *)
(* a present value v is <<v>>.                                             *)
(***************************************************************************)
EXTENDS Integers, Sequences, FiniteSets, TLC

VARIABLES store, today, pc, call, loc, ops, result, prev, ncalls

vars == <<store, today, pc, call, loc, ops, result, prev, ncalls>>

\* ------------------------------------------------------------------ bounds

\* The clients (server processes) working on the same repository.
Clients == {1, 2}

\* Tool invocations started, over all clients.
MaxCalls == 2

\* The most results the remote search yields for one query.
MaxResults == 22

\* ------------------------------------------------------------------ text

None == <<>>

Some(v) == <<v>>

Upper == <<"A","B","C","D","E","F","G","H","I","J","K","L","M",
           "N","O","P","Q","R","S","T","U","V","W","X","Y","Z">>

Alpha == <<"a","b","c","d","e","f","g","h","i","j","k","l","m",
           "n","o","p","q","r","s","t","u","v","w","x","y","z">>

Digits == <<"0","1","2","3","4","5","6","7","8","9">>

Whitespace == {" ", "\t", "\n"}

Range(s) == {s[i] : i \in DOMAIN s}

\* str.lower(), one character
LowerChar(c) ==
    IF c \in Range(Upper) THEN Alpha[CHOOSE i \in DOMAIN Upper : Upper[i] = c] ELSE c

\* str.lower()
Lower(s) == [i \in DOMAIN s |-> LowerChar(s[i])]

RECURSIVE LStrip(_, _)
LStrip(s, drop) ==
    IF s # <<>> /\ Head(s) \in drop THEN LStrip(Tail(s), drop) ELSE s

RECURSIVE RStrip(_, _)
RStrip(s, drop) ==
    IF s # <<>> /\ s[Len(s)] \in drop THEN RStrip(SubSeq(s, 1, Len(s) - 1), drop) ELSE s

\* str.strip()
Strip(s) == RStrip(LStrip(s, Whitespace), Whitespace)

\* A slip: the case is folded, the whitespace is kept.
NormalizeNoStrip(s) == Lower(s)

\* category.lower().strip()
Normalize(s) == Strip(Lower(s))

IsAlnum(c) == c \in Range(Alpha) \cup Range(Digits)

\* Runs of characters that are not alphanumeric become one "-".
RECURSIVE Dashed(_)
Dashed(s) ==
    IF s = <<>> THEN <<>>
    ELSE IF IsAlnum(Head(s)) THEN <<Head(s)>> \o Dashed(Tail(s))
    ELSE LET rest == Dashed(Tail(s))
         IN  IF rest # <<>> /\ Head(rest) = "-" THEN rest ELSE <<"-">> \o rest

\* slugify(text): lowercase, non-alphanumeric runs to one "-", no "-" at the ends
slugify(text) == RStrip(LStrip(Dashed(Lower(text)), {"-"}), {"-"})

\* The rank of a character in the order sorted() uses (code points).
Rank(c) ==
    IF c \in Range(Digits) THEN CHOOSE i \in DOMAIN Digits : Digits[i] = c
    ELSE IF c \in Range(Upper) THEN 10 + (CHOOSE i \in DOMAIN Upper : Upper[i] = c)
    ELSE IF c \in Range(Alpha) THEN 40 + (CHOOSE i \in DOMAIN Alpha : Alpha[i] = c)
    ELSE 0

RECURSIVE StrLess(_, _)
StrLess(a, b) ==
    IF b = <<>> THEN FALSE
    ELSE IF a = <<>> THEN TRUE
    ELSE IF Head(a) = Head(b) THEN StrLess(Tail(a), Tail(b))
    ELSE Rank(Head(a)) < Rank(Head(b))

\* sorted(S), S a set of strings
RECURSIVE Sorted(_)
Sorted(S) ==
    IF S = {} THEN <<>>
    ELSE LET m == CHOOSE x \in S : \A y \in S \ {x} : StrLess(x, y)
         IN  <<m>> \o Sorted(S \ {m})

S_coding == <<"c","o","d","i","n","g">>
S_infrastructure == <<"i","n","f","r","a","s","t","r","u","c","t","u","r","e">>
S_documentation == <<"d","o","c","u","m","e","n","t","a","t","i","o","n">>
S_general == <<"g","e","n","e","r","a","l">>
S_agent == <<"a","g","e","n","t">>
S_cloud == <<"c","l","o","u","d">>
S_devops == <<"d","e","v","o","p","s">>
S_til == <<"t","i","l">>
S_prompts == <<"p","r","o","m","p","t","s">>
S_patterns == <<"p","a","t","t","e","r","n","s">>
S_all == <<"a","l","l">>

VALID_PROMPT_CATEGORIES == {S_coding, S_infrastructure, S_documentation, S_general}

VALID_PATTERN_CATEGORIES == {S_agent, S_cloud, S_devops}

VALID_SECTIONS == {S_til, S_prompts, S_patterns, S_all}

\* SECTION_PATH_MAP[sec]
SECTION_PATH_MAP(sec) ==
    IF sec = S_til THEN <<"til", "/">>
    ELSE IF sec = S_prompts THEN <<"ai", "/", "prompts", "/">>
    ELSE <<"patterns", "/">>

\* _html_url_for(path)
html_url_for(path) == <<"https://github.com/", "GITHUB_REPO", "/blob/main/">> \o path

\* ------------------------------------------------------------------ the remote store

\* A text is a sequence of lines, each line a sequence of string tokens and
\* each ended by "\n"; the empty line is <<>>.
NL == <<>>

\* str.rstrip("\n") on a text: the trailing empty lines go, and so does the
\* newline that ends the last line left.
RStripNL(text) == RStrip(text, {NL})

\* stripped + "\n" + link, as lines: an empty stripped text still gives the
\* "\n", which is one empty line.
AppendLine(stripped, link) ==
    (IF stripped = <<>> THEN <<NL>> ELSE stripped) \o <<link>>

Files == DOMAIN store

\* The repository after a commit that sets the file at path.
Commit(path, content) ==
    [q \in Files \cup {path} |->
        IF q = path
        THEN [content |-> content,
              sha |-> IF path \in Files THEN store[path].sha + 1 ELSE 1,
              date |-> today]
        ELSE store[q]]

\* GithubException(status, data).  data is the decoded body of the error
\* response: "message" a mapping with a "message" key, "no_message" a mapping
\* without one, "empty" None (the response had no body).
GithubException(status, data) ==
    [type |-> "GithubException", status |-> status, data |-> data]

\* Any exception that is not a GithubException (a connection error).
OtherException == [type |-> "Exception", status |-> 0, data |-> "empty"]

\* What a remote call can fail with whatever the state of the repository.
Failures ==
    { GithubException(403, "message"), GithubException(502, "no_message"),
      GithubException(503, "empty"), OtherException }

\* The repository's own refusals carry a message.
NotFound == GithubException(404, "message")
Conflict == GithubException(409, "message")
Unprocessable == GithubException(422, "message")

\* str(exc)
StrOf(exc) == <<"str(", exc.type, ToString(exc.status), ")">>

\* exc.data["message"]
MessageOf(exc) == <<"message of ", ToString(exc.status)>>

\* One remote call, as the handler issued it and as it ended.
\* by is the function of server.py that issued it, ret the number of results
\* a search yielded.
Op(by, name, path, sha, content, out) ==
    [by |-> by, op |-> name, path |-> path, sha |-> sha, content |-> content,
     out |-> out, ret |-> 0]

\* A remote call of _create_or_update_file.
UpsertOp(name, path, sha, content, out) ==
    Op("_create_or_update_file", name, path, sha, content, out)

OutOf(exc) == IF exc.type = "GithubException" THEN ToString(exc.status) ELSE "fail"

\* ------------------------------------------------------------------ results

\* What a handler hands to the transport: a text (its lines), or an exception
\* raised out of it (kind "raised", the text naming the exception).
Result(kind, text) == [kind |-> kind, text |-> text]

NoResult == Result("none", <<>>)

Returned(r) == r.kind \notin {"none", "raised"}

\* except GithubException as exc: return f"{api_label}{exc.data.get('message', str(exc))}"
\* except Exception as exc: return f"{gen_label}{exc}"
\* exc.data.get on None raises AttributeError inside the except clause, which
\* no clause of the same try statement catches.
Except(api_label, gen_label, exc) ==
    IF exc.type = "GithubException"
    THEN IF exc.data = "empty" THEN Result("raised", << <<"AttributeError">> >>)
         ELSE Result("api_error",
                     << <<api_label>> \o
                        (IF exc.data = "message" THEN MessageOf(exc) ELSE StrOf(exc)) >>)
    ELSE Result("error", << <<gen_label>> \o StrOf(exc) >>)

ApiLabel(tool) ==
    CASE tool = "add_til" -> "GitHub API error while adding TIL: "
      [] tool = "add_prompt" -> "GitHub API error while adding prompt: "
      [] tool = "add_pattern" -> "GitHub API error while adding pattern: "
      [] tool = "search_pkb" -> "GitHub API error while searching: "
      [] tool = "list_entries" -> "GitHub API error while listing entries: "

GenLabel(tool) ==
    CASE tool = "add_til" -> "Error adding TIL: "
      [] tool = "add_prompt" -> "Error adding prompt: "
      [] tool = "add_pattern" -> "Error adding pattern: "
      [] tool = "search_pkb" -> "Error searching PKB: "
      [] tool = "list_entries" -> "Error listing entries: "

\* ------------------------------------------------------------------ inputs

Dates == <<"2024-01-15", "2024-01-16">>

T_hi == <<"H","i"," ","Y","o">>
T_hi2 == <<"h","i","-","-","y","o","!">>
T_fix == <<"F","i","x"," ","1">>
T_retry == <<"R","e","-","T","r","y">>

TilInputs ==
    { [tool |-> "add_til", title |-> T_hi, content |-> <<"body-1">>, tags |-> <<>>],
      [tool |-> "add_til", title |-> T_hi2, content |-> <<"body-2">>,
       tags |-> <<"python", "algorithms">>] }

PromptInputs ==
    { [tool |-> "add_prompt", name |-> T_fix,
       category |-> <<" ","C","o","d","i","n","g","\n">>,
       content |-> <<"prompt-1">>, description |-> "d1"],
      [tool |-> "add_prompt", name |-> T_fix, category |-> <<"c","s","s">>,
       content |-> <<"prompt-1">>, description |-> "d1"] }

PatternInputs ==
    { [tool |-> "add_pattern", name |-> T_retry,
       category |-> <<"D","e","v","O","p","s">>,
       problem |-> "p1", solution |-> "s1", tags |-> <<>>],
      [tool |-> "add_pattern", name |-> T_retry,
       category |-> <<"d","e","v"," ","o","p","s">>,
       problem |-> "p1", solution |-> "s1", tags |-> <<"ops">>] }

SearchInputs == { [tool |-> "search_pkb", query |-> "kubernetes"] }

ListInputs ==
    { [tool |-> "list_entries", section |-> <<"A","l","l"," ">>],
      [tool |-> "list_entries", section |-> <<"\t","T","I","L">>],
      [tool |-> "list_entries", section |-> S_prompts],
      [tool |-> "list_entries", section |-> <<"p","a","t","t","e","r","n">>] }

\* ------------------------------------------------------------------ documents

\* ", ".join(tags) if tags else ""
RECURSIVE JoinTags(_)
JoinTags(tags) ==
    IF tags = <<>> THEN <<>>
    ELSE IF Len(tags) = 1 THEN <<tags[1]>>
    ELSE <<tags[1], ", ">> \o JoinTags(Tail(tags))

\* A slip: the file name carries a counter of the invocations.
TilFilenameStamped(date_str, title) ==
    <<date_str, "-", ToString(ncalls), "-">> \o slugify(title) \o <<".md">>

TilFilename(date_str, title) == <<date_str, "-">> \o slugify(title) \o <<".md">>

TilPath(date_str, title) == <<"til", "/">> \o TilFilename(date_str, title)

INDEX_PATH == <<"til", "/", "index.md">>

TilContent(date_str, title, content, tags) ==
    << <<"---">>,
       <<"title: \"">> \o title \o <<"\"">>,
       <<"date: ", date_str>>,
       <<"tags: [">> \o JoinTags(tags) \o <<"]">>,
       <<"---">>,
       NL,
       content >>

\* new_link, without its "\n"
TilLink(date_str, title) ==
    <<"- [">> \o title \o <<"](">> \o TilFilename(date_str, title)
        \o <<") (", date_str, ")">>

\* updated_index, from existing_index
UpdatedIndex(existing_index, new_link) ==
    IF existing_index # None
    THEN AppendLine(RStripNL(existing_index[1]), new_link)
    ELSE << <<"# TIL Index">>, NL, new_link >>

PromptPath(category_lower, name) ==
    <<"ai", "/", "prompts", "/">> \o category_lower \o <<"/">> \o slugify(name) \o <<".md">>

PromptContent(date_str, name, category_lower, description, content) ==
    << <<"---">>,
       <<"name: \"">> \o name \o <<"\"">>,
       <<"category: ">> \o category_lower,
       <<"description: \"", description, "\"">>,
       <<"date: ", date_str>>,
       <<"---">>,
       NL,
       content >>

PatternPath(category_lower, name) ==
    <<"patterns", "/">> \o category_lower \o <<"/">> \o slugify(name) \o <<".md">>

PatternContent(date_str, name, category_lower, problem, solution, tags) ==
    << <<"---">>,
       <<"name: \"">> \o name \o <<"\"">>,
       <<"category: ">> \o category_lower,
       <<"date: ", date_str>>,
       <<"tags: [">> \o JoinTags(tags) \o <<"]">>,
       <<"---">>,
       NL,
       <<"## Problem">>, NL, <<problem>>, NL,
       <<"## Solution">>, NL, <<solution>> >>

\* f"Invalid category '{category}'. Must be one of: {', '.join(sorted(valid))}"
RECURSIVE JoinNames(_)
JoinNames(names) ==
    IF names = <<>> THEN <<>>
    ELSE IF Len(names) = 1 THEN names[1]
    ELSE names[1] \o <<", ">> \o JoinNames(Tail(names))

Invalid(what, given, valid) ==
    Result("invalid",
           << <<"Invalid ", what, " '">> \o given \o <<"'. Must be one of: ">>
                  \o JoinNames(Sorted(valid)) >>)

\* ------------------------------------------------------------------ state

\* loc[p]: the locals of client p's running handler.  path, content and
\* existing are _create_or_update_file's; step says which of add_til's two
\* upserts is running.
NoLoc ==
    [file_path |-> <<>>, full_content |-> <<>>, date_str |-> "", new_link |-> <<>>,
     step |-> "", path |-> <<>>, content |-> <<>>, existing |-> None, url |-> <<>>]

NoCall == [tool |-> "none"]

EmptyStore == << >>

\* A repository that already holds a TIL index, ending in a blank line.
SeededStore ==
    [q \in {INDEX_PATH} |->
        [content |-> << <<"# TIL Index">>, NL, <<"- [Old](2024-01-01-old.md) (2024-01-01)">>, NL >>,
         sha |-> 1, date |-> "2024-01-01"]]

Init ==
    /\ store \in {EmptyStore, SeededStore}
    /\ today = Dates[1]
    /\ pc = [p \in Clients |-> "idle"]
    /\ call = [p \in Clients |-> NoCall]
    /\ loc = [p \in Clients |-> NoLoc]
    /\ ops = [p \in Clients |-> <<>>]
    /\ result = [p \in Clients |-> NoResult]
    /\ prev = [p \in Clients |-> None]
    /\ ncalls = 0

\* Every remote call of the invocation ended without an exception other than
\* the not-found that means "create".
Clean(log) == \A i \in DOMAIN log : log[i].out \in {"200", "404"}

\* The invocation client p has just finished, kept for the next one to be
\* compared with when it succeeded without any remote failure.
Finished(p) ==
    IF pc[p] = "done" /\ result[p].kind = "success" /\ Clean(ops[p])
    THEN Some([call |-> call[p], date_str |-> loc[p].date_str,
               file_path |-> loc[p].file_path, full_content |-> loc[p].full_content,
               result |-> result[p]])
    ELSE None

\* A tool invocation arrives at client p, which runs one invocation at a time.
Accept(p, in) ==
    /\ pc[p] \in {"idle", "done"}
    /\ ncalls < MaxCalls
    /\ ncalls' = ncalls + 1
    /\ call' = [call EXCEPT ![p] = in]
    /\ prev' = [prev EXCEPT ![p] = Finished(p)]
    /\ UNCHANGED <<store, today>>

\* The handler returns r (or raises, r.kind = "raised"); log is the remote
\* calls of the whole invocation and l its locals, of which the upsert's die.
Return(p, r, log, l) ==
    /\ pc' = [pc EXCEPT ![p] = "done"]
    /\ result' = [result EXCEPT ![p] = r]
    /\ ops' = [ops EXCEPT ![p] = log]
    /\ loc' = [loc EXCEPT ![p] = [NoLoc EXCEPT !.file_path = l.file_path,
                                               !.full_content = l.full_content,
                                               !.date_str = l.date_str]]

\* A remote call raised exc: one of the handler's except clauses runs.
Raise(p, exc, op) ==
    /\ Return(p, Except(ApiLabel(call[p].tool), GenLabel(call[p].tool), exc),
              ops[p] \o <<op>>, loc[p])
    /\ UNCHANGED <<store, today, call, prev, ncalls>>

\* The handler calls _create_or_update_file(path, content, ...).
StartUpsert(p, l) ==
    /\ loc' = [loc EXCEPT ![p] = l]
    /\ pc' = [pc EXCEPT ![p] = "read"]
    /\ ops' = [ops EXCEPT ![p] = <<>>]
    /\ result' = [result EXCEPT ![p] = NoResult]

\* ------------------------------------------------------------------ add handlers

\* add_til up to its first remote call
AddTil(p) ==
    \E in \in TilInputs :
        /\ Accept(p, in)
        /\ LET date_str == today
               file_path == TilPath(date_str, in.title)
               full_content == TilContent(date_str, in.title, in.content, in.tags)
           IN  StartUpsert(p, [NoLoc EXCEPT
                   !.file_path = file_path, !.full_content = full_content,
                   !.date_str = date_str, !.new_link = TilLink(date_str, in.title),
                   !.step = "entry", !.path = file_path, !.content = full_content])

\* add_prompt up to its first remote call, or to its return on a bad category
AddPrompt(p) ==
    \E in \in PromptInputs :
        /\ Accept(p, in)
        /\ LET category_lower == Normalize(in.category)
               date_str == today
               file_path == PromptPath(category_lower, in.name)
               full_content ==
                   PromptContent(date_str, in.name, category_lower, in.description, in.content)
           IN  IF category_lower \notin VALID_PROMPT_CATEGORIES
               THEN Return(p, Invalid("category", in.category, VALID_PROMPT_CATEGORIES),
                           <<>>, NoLoc)
               ELSE StartUpsert(p, [NoLoc EXCEPT
                        !.file_path = file_path, !.full_content = full_content,
                        !.date_str = date_str, !.step = "entry",
                        !.path = file_path, !.content = full_content])

\* add_pattern up to its first remote call, or to its return on a bad category
AddPattern(p) ==
    \E in \in PatternInputs :
        /\ Accept(p, in)
        /\ LET category_lower == Normalize(in.category)
               date_str == today
               file_path == PatternPath(category_lower, in.name)
               full_content ==
                   PatternContent(date_str, in.name, category_lower,
                                  in.problem, in.solution, in.tags)
           IN  IF category_lower \notin VALID_PATTERN_CATEGORIES
               THEN Return(p, Invalid("category", in.category, VALID_PATTERN_CATEGORIES),
                           <<>>, NoLoc)
               ELSE StartUpsert(p, [NoLoc EXCEPT
                        !.file_path = file_path, !.full_content = full_content,
                        !.date_str = date_str, !.step = "entry",
                        !.path = file_path, !.content = full_content])

\* The text an add handler returns on success.
Success(in, url) ==
    CASE in.tool = "add_til" ->
           Result("success", << <<"TIL entry created: ">> \o in.title, <<"URL: ">> \o url >>)
      [] in.tool = "add_prompt" ->
           Result("success",
                  << <<"Prompt saved: ">> \o in.name \o <<" [">>
                         \o Normalize(in.category) \o <<"]">>,
                     <<"URL: ">> \o url >>)
      [] in.tool = "add_pattern" ->
           Result("success",
                  << <<"Pattern documented: ">> \o in.name \o <<" [">>
                         \o Normalize(in.category) \o <<"]">>,
                     <<"URL: ">> \o url >>)

\* _create_or_update_file, its read: existing = _repo.get_contents(path), None on 404
CreateOrUpdateRead(p) ==
    /\ pc[p] = "read"
    /\ LET path == loc[p].path
       IN  \/ \E f \in Failures : Raise(p, f, UpsertOp("get_contents", path, None, None, OutOf(f)))
           \/ /\ path \in Files
              /\ loc' = [loc EXCEPT ![p].existing = Some(store[path].sha)]
              /\ ops' = [ops EXCEPT ![p] =
                    @ \o <<UpsertOp("get_contents", path, Some(store[path].sha), None, "200")>>]
              /\ pc' = [pc EXCEPT ![p] = "write"]
              /\ UNCHANGED <<store, today, call, result, prev, ncalls>>
           \/ /\ path \notin Files
              /\ loc' = [loc EXCEPT ![p].existing = None]
              /\ ops' = [ops EXCEPT ![p] = @ \o <<UpsertOp("get_contents", path, None, None, "404")>>]
              /\ pc' = [pc EXCEPT ![p] = "write"]
              /\ UNCHANGED <<store, today, call, result, prev, ncalls>>

\* A slip: the write never looks at what the read found.
WriteCallAlwaysCreate(path, content, existing) ==
    [op |-> "create_file", path |-> path, sha |-> None, content |-> content]

\* A slip: the update carries the sha the repository holds at the time of the
\* write, not the one the read returned.
WriteCallFreshSha(path, content, existing) ==
    IF existing # None
    THEN [op |-> "update_file", path |-> path, content |-> content,
          sha |-> IF path \in Files THEN Some(store[path].sha) ELSE existing]
    ELSE [op |-> "create_file", path |-> path, sha |-> None, content |-> content]

\* The write _create_or_update_file issues after its read.
WriteCall(path, content, existing) ==
    IF existing # None
    THEN [op |-> "update_file", path |-> path, sha |-> existing, content |-> content]
    ELSE [op |-> "create_file", path |-> path, sha |-> None, content |-> content]

\* What the repository answers to a write: None when it commits it.
Refusal(req) ==
    IF req.op = "update_file"
    THEN IF req.path \notin Files THEN Some(NotFound)
         ELSE IF store[req.path].sha # req.sha[1] THEN Some(Conflict)
         ELSE None
    ELSE IF req.path \in Files THEN Some(Unprocessable) ELSE None

\* The handler's code after an upsert that returned url.
AfterUpsert(p, req, url) ==
    LET done == UpsertOp(req.op, req.path, req.sha, Some(req.content), "200")
    IN  IF call[p].tool = "add_til" /\ loc[p].step = "entry"
        THEN /\ loc' = [loc EXCEPT ![p].url = url]
             /\ ops' = [ops EXCEPT ![p] = @ \o <<done>>]
             /\ pc' = [pc EXCEPT ![p] = "get_index"]
             /\ UNCHANGED result
        ELSE Return(p, Success(call[p], IF loc[p].step = "index" THEN loc[p].url ELSE url),
                    ops[p] \o <<done>>, loc[p])

\* _create_or_update_file, its write: update_file with the sha read, or create_file
CreateOrUpdateWrite(p) ==
    /\ pc[p] = "write"
    /\ LET req == WriteCall(loc[p].path, loc[p].content, loc[p].existing)
       IN  \/ \E f \in Failures :
                  Raise(p, f, UpsertOp(req.op, req.path, req.sha, Some(req.content), OutOf(f)))
           \/ /\ Refusal(req) # None
              /\ Raise(p, Refusal(req)[1],
                       UpsertOp(req.op, req.path, req.sha, Some(req.content),
                                OutOf(Refusal(req)[1])))
           \/ /\ Refusal(req) = None
              /\ store' = Commit(req.path, req.content)
              /\ AfterUpsert(p, req, html_url_for(req.path))
              /\ UNCHANGED <<today, call, prev, ncalls>>

\* add_til between its two upserts: existing_index = _get_file_content(index_path)
GetFileContent(p) ==
    /\ pc[p] = "get_index"
    /\ \/ \E f \in Failures :
             Raise(p, f, Op("_get_file_content", "get_contents", INDEX_PATH, None, None, OutOf(f)))
       \/ LET found == INDEX_PATH \in Files
              existing_index == IF found THEN Some(store[INDEX_PATH].content) ELSE None
          IN  /\ loc' = [loc EXCEPT ![p].step = "index", ![p].path = INDEX_PATH,
                            ![p].content = UpdatedIndex(existing_index, loc[p].new_link),
                            ![p].existing = None]
              /\ ops' = [ops EXCEPT ![p] = @ \o
                    <<Op("_get_file_content", "get_contents", INDEX_PATH, None, None,
                         IF found THEN "200" ELSE "404")>>]
              /\ pc' = [pc EXCEPT ![p] = "read"]
              /\ UNCHANGED <<store, today, call, result, prev, ncalls>>

\* ------------------------------------------------------------------ search_pkb

\* A slip: the loop breaks one match late.
SEARCH_CAP_LATE == 20 + 1

\* if len(matches) >= 20: break
SEARCH_CAP == 20

\* decoded[:200]
SNIPPET_LEN == 200

\* How many results the remote search yields.
ResultCounts == {0, 1, 2, SEARCH_CAP - 1, SEARCH_CAP, SEARCH_CAP + 1, MaxResults}

\* The i-th result of the remote search: its path and the length of its file.
ItemPath(i) == <<"hit-", ToString(i)>>

ItemLen(i) == IF i % 2 = 1 THEN SNIPPET_LEN ELSE SNIPPET_LEN + 1

Min(a, b) == IF a < b THEN a ELSE b

\* snippet: the first 200 characters, "..." after them when the file is longer;
\* "(unable to retrieve snippet)" when fetching the file raised.
Snippet(i, failed) ==
    IF failed THEN <<"(unable to retrieve snippet)">>
    ELSE <<"first ", ToString(Min(ItemLen(i), SNIPPET_LEN)), " characters of ">> \o ItemPath(i)
             \o (IF ItemLen(i) > SNIPPET_LEN THEN <<"...">> ELSE <<>>)

\* One element of matches, as lines.
Match(i, failed) ==
    << <<"- **">> \o ItemPath(i) \o <<"**">>,
       <<"  URL: ">> \o html_url_for(ItemPath(i)),
       <<"  Snippet: ">> \o Snippet(i, failed) >>

\* for item in results: ... matches.append(...); if len(matches) >= 20: break
\* from the i-th of n results on; bad are the results whose file cannot be fetched.
RECURSIVE SearchLoop(_, _, _, _)
SearchLoop(i, n, bad, matches) ==
    IF i > n THEN matches
    ELSE LET ms == Append(matches, Match(i, i \in bad))
         IN  IF Len(ms) >= SEARCH_CAP THEN ms ELSE SearchLoop(i + 1, n, bad, ms)

\* "\n\n".join(matches), as lines
RECURSIVE JoinBlocks(_)
JoinBlocks(blocks) ==
    IF blocks = <<>> THEN <<>>
    ELSE IF Len(blocks) = 1 THEN blocks[1]
    ELSE blocks[1] \o <<NL>> \o JoinBlocks(Tail(blocks))

\* What search_pkb returns for the matches it collected.
SearchText(query, matches) ==
    IF matches = <<>>
    THEN Result("no_results", << <<"No results found for '", query, "'.">> >>)
    ELSE Result("found",
                << <<"Found ", ToString(Len(matches)), " result(s) for '", query, "':">>, NL >>
                    \o JoinBlocks(matches))

\* search_pkb, whole: the search, then one fetch for every result consumed
SearchPkb(p) ==
    \E in \in SearchInputs :
        /\ Accept(p, in)
        /\ \/ \E f \in Failures :
                 Return(p, Except(ApiLabel(in.tool), GenLabel(in.tool), f),
                        <<Op("search_pkb", "search_code", <<in.query>>, None, None, OutOf(f))>>, NoLoc)
           \/ \E n \in ResultCounts, bad \in SUBSET {1, SEARCH_CAP} :
                 LET matches == SearchLoop(1, n, bad, <<>>)
                 IN  Return(p, SearchText(in.query, matches),
                            <<[Op("search_pkb", "search_code", <<in.query>>, None, None, "200")
                                 EXCEPT !.ret = n]>>
                                \o [i \in 1..Len(matches) |->
                                       Op("search_pkb", "get_contents", ItemPath(i), None, None,
                                          IF i \in bad THEN "fail" ELSE "200")],
                            NoLoc)

\* ------------------------------------------------------------------ list_entries

DirPrefix(path) == IF path[Len(path)] = "/" THEN path ELSE path \o <<"/">>

\* The files of the repository below the directory path.
Under(path) ==
    {q \in Files : /\ Len(q) > Len(DirPrefix(path))
                   /\ SubSeq(q, 1, Len(DirPrefix(path))) = DirPrefix(path)}

\* What get_contents answers for the directory path: its files and its
\* subdirectories.
Children(path) ==
    {LET rest == SubSeq(q, Len(DirPrefix(path)) + 1, Len(q))
     IN  IF "/" \in Range(rest)
         THEN LET name == SubSeq(rest, 1, (CHOOSE k \in DOMAIN rest :
                              rest[k] = "/" /\ \A j \in 1..(k - 1) : rest[j] # "/") - 1)
              IN  [type |-> "dir", path |-> DirPrefix(path) \o name, name |-> name]
         ELSE [type |-> "file", path |-> q, name |-> rest]
     : q \in Under(path)}

\* The answer as a list, in the order the repository gives it.
RECURSIVE SeqOf(_)
SeqOf(S) ==
    IF S = {} THEN <<>>
    ELSE LET x == CHOOSE y \in S : TRUE IN <<x>> \o SeqOf(S \ {x})

\* _list_files_recursive(path).  bad is None, or the directory whose listing
\* fails and the exception it fails with.  The result: the (path, name) pairs,
\* the remote calls made, and the exception raised, if any.
RECURSIVE list_files_recursive(_, _)
RECURSIVE ListLoop(_, _, _)
list_files_recursive(path, bad) ==
    IF bad # None /\ bad[1].dir = path
    THEN [files |-> <<>>, exc |-> Some(bad[1].exc),
          log |-> <<Op("_list_files_recursive", "get_contents", path, None, None,
                       OutOf(bad[1].exc))>>]
    ELSE IF Under(path) = {}
    THEN [files |-> <<>>, exc |-> None,
          log |-> <<Op("_list_files_recursive", "get_contents", path, None, None, "404")>>]
    ELSE ListLoop(SeqOf(Children(path)), bad,
                  [files |-> <<>>, exc |-> None,
                   log |-> <<Op("_list_files_recursive", "get_contents", path, None, None, "200")>>])

\* for item in contents: recurse into a directory, keep a file
ListLoop(items, bad, acc) ==
    IF items = <<>> \/ acc.exc # None THEN acc
    ELSE LET item == Head(items)
         IN  IF item.type = "dir"
             THEN LET r == list_files_recursive(item.path, bad)
                  IN  ListLoop(Tail(items), bad,
                               [files |-> acc.files \o r.files, exc |-> r.exc,
                                log |-> acc.log \o r.log])
             ELSE ListLoop(Tail(items), bad,
                           [acc EXCEPT !.files = Append(@, <<item.path, item.name>>)])

\* _get_last_modified(path): the date of the last commit, "unknown" when the
\* query raised (path in unk)
get_last_modified(path, unk) == IF path \in unk THEN "unknown" ELSE store[path].date

UpperChar(c) ==
    IF c \in Range(Alpha) THEN Upper[CHOOSE i \in DOMAIN Alpha : Alpha[i] = c] ELSE c

\* sec.title(), sec one lowercase word
Title(sec) == IF sec = <<>> THEN sec ELSE <<UpperChar(Head(sec))>> \o Tail(sec)

\* header, without its "\n"
Header(sec) == <<"## ">> \o Title(sec)

NO_ENTRIES == <<"  (no entries yet)">>

\* One element of entries, as lines.
Entry(item, unk) ==
    << <<"- **">> \o item[2] \o <<"**">>,
       <<"  Path: ">> \o item[1],
       <<"  Modified: ", get_last_modified(item[1], unk)>>,
       <<"  URL: ">> \o html_url_for(item[1]) >>

RECURSIVE Flatten(_)
Flatten(blocks) == IF blocks = <<>> THEN <<>> ELSE Head(blocks) \o Flatten(Tail(blocks))

\* for sec in sections_to_list: ...  acc holds output_parts, the remote calls
\* made and the exception that ended the loop, if any.
RECURSIVE SectionLoop(_, _, _, _)
SectionLoop(secs, bad, unk, acc) ==
    IF secs = <<>> \/ acc.exc # None THEN acc
    ELSE LET sec == Head(secs)
             r == list_files_recursive(SECTION_PATH_MAP(sec), bad)
             commits == [i \in DOMAIN r.files |->
                            Op("_get_last_modified", "get_commits", r.files[i][1], None, None,
                               IF r.files[i][1] \in unk THEN "fail" ELSE "200")]
         IN  IF r.exc # None
             THEN IF r.exc[1].type = "GithubException" /\ r.exc[1].status = 404
                  THEN SectionLoop(Tail(secs), bad, unk,
                           [acc EXCEPT !.parts = Append(@, <<Header(sec), NO_ENTRIES>>),
                                       !.log = @ \o r.log])
                  ELSE [acc EXCEPT !.exc = r.exc, !.log = @ \o r.log]
             ELSE IF r.files = <<>>
             THEN SectionLoop(Tail(secs), bad, unk,
                      [acc EXCEPT !.parts = Append(@, <<Header(sec), NO_ENTRIES>>),
                                  !.log = @ \o r.log])
             ELSE SectionLoop(Tail(secs), bad, unk,
                      [acc EXCEPT
                          !.parts = Append(@, <<Header(sec)>> \o
                              Flatten([i \in DOMAIN r.files |-> Entry(r.files[i], unk)])),
                          !.log = @ \o r.log \o commits])

\* A slip: "all" expands in sorted order.
SectionsToListSorted(section_lower) ==
    IF section_lower = S_all THEN <<S_patterns, S_prompts, S_til>> ELSE <<section_lower>>

\* sections_to_list
SectionsToList(section_lower) ==
    IF section_lower = S_all THEN <<S_til, S_prompts, S_patterns>> ELSE <<section_lower>>

\* The directories a listing can ask the repository for.
Dirs ==
    LET roots == {SECTION_PATH_MAP(sec) : sec \in {S_til, S_prompts, S_patterns}}
    IN  roots \cup UNION {{c.path : c \in {d \in Children(r) : d.type = "dir"}} : r \in roots}

\* list_entries, whole
ListEntries(p) ==
    \E in \in ListInputs :
        /\ Accept(p, in)
        /\ LET section_lower == Normalize(in.section)
               start == [parts |-> <<>>, log |-> <<>>, exc |-> None]
           IN  IF section_lower \notin VALID_SECTIONS
               THEN Return(p, Invalid("section", in.section, VALID_SECTIONS), <<>>, NoLoc)
               ELSE \/ \E d \in Dirs, f \in Failures :
                         LET r == SectionLoop(SectionsToList(section_lower),
                                              Some([dir |-> d, exc |-> f]), {}, start)
                         IN  /\ r.exc # None
                             /\ Return(p, Except(ApiLabel(in.tool), GenLabel(in.tool), r.exc[1]),
                                       r.log, NoLoc)
                    \/ \E unk \in {{}, Files} \cup {{q} : q \in Files} :
                         LET r == SectionLoop(SectionsToList(section_lower), None, unk, start)
                         IN  Return(p, Result("listing", JoinBlocks(r.parts)), r.log, NoLoc)

\* The UTC date changes.
Midnight ==
    /\ today = Dates[1]
    /\ today' = Dates[2]
    /\ UNCHANGED <<store, pc, call, loc, ops, result, prev, ncalls>>

Next ==
    \/ \E p \in Clients : AddTil(p)
    \/ \E p \in Clients : AddPrompt(p)
    \/ \E p \in Clients : AddPattern(p)
    \/ \E p \in Clients : CreateOrUpdateRead(p)
    \/ \E p \in Clients : CreateOrUpdateWrite(p)
    \/ \E p \in Clients : GetFileContent(p)
    \/ \E p \in Clients : SearchPkb(p)
    \/ \E p \in Clients : ListEntries(p)
    \/ Midnight

Spec == Init /\ [][Next]_vars

\* ------------------------------------------------------------------ properties

AddTools == {"add_til", "add_prompt", "add_pattern"}

Writes == {"update_file", "create_file"}

\* The remote calls of _create_or_update_file in a log, in order.
UpsertOps(log) == SelectSeq(log, LAMBDA o : o.by = "_create_or_update_file")

\* The writes of a log, in order.
WriteOps(log) == SelectSeq(log, LAMBDA o : o.op \in Writes)

\* A remote call ended in an exception other than the not-found of a read.
Failed(o) == o.out \notin {"200", "404"}

ErrorText(r) == r.kind \in {"api_error", "error"}

\* C1: every upsert reads its path once, then issues exactly one write on
\* that path: an update carrying the sha the read returned when the read
\* found the file, a create when the read answered 404; when the read fails
\* otherwise no write follows and the handler's except clause gets the error.
C1_UpsertReadThenOneWrite ==
    \A p \in Clients :
        call[p].tool \in AddTools =>
            LET u == UpsertOps(ops[p])
            IN  /\ \A j \in DOMAIN u :
                      IF j % 2 = 1
                      THEN /\ u[j].op = "get_contents"
                           /\ j = Len(u) =>
                                 IF Failed(u[j])
                                 THEN pc[p] = "done" /\ ~(result[p].kind = "success")
                                 ELSE pc[p] = "write"
                      ELSE /\ u[j].path = u[j - 1].path
                           /\ u[j - 1].out = "200" =>
                                 u[j].op = "update_file" /\ u[j].sha = u[j - 1].sha
                                     /\ u[j].sha # None
                           /\ u[j - 1].out = "404" => u[j].op = "create_file"
                           /\ ~Failed(u[j - 1])
                /\ pc[p] = "write" => Len(u) % 2 = 1
                /\ Len(WriteOps(ops[p])) = Len(u) \div 2

\* C1 witness: one finished invocation created a file and updated another,
\* and another invocation ended on a failed read with no write issued.
C1_Witness ==
    \E p, q \in Clients :
        /\ pc[p] = "done" /\ pc[q] = "done"
        /\ \E i, j \in DOMAIN ops[p] :
              /\ ops[p][i].op = "create_file" /\ ops[p][i].out = "200"
              /\ ops[p][j].op = "update_file" /\ ops[p][j].out = "200"
        /\ Len(ops[q]) = 1 /\ ops[q][1].by = "_create_or_update_file" /\ Failed(ops[q][1])
        /\ ErrorText(result[q])

\* C4: every finished invocation of the five handlers returned a text; none
\* raised an exception to the transport.
C4_AlwaysReturnsText ==
    \A p \in Clients : pc[p] = "done" => Returned(result[p])

\* The lines of a text that are not empty.
NonBlank(text) == SelectSeq(text, LAMBDA l : l # NL)

\* C2: a write of til/index.md keeps every line the repository held in it
\* just before the write, in the same order, and adds one line after them,
\* also when another client's update landed between the writer's read of the
\* index content and its write.
C2_IndexAppendOnly ==
    [][(INDEX_PATH \in Files /\ store'[INDEX_PATH] # store[INDEX_PATH]) =>
          LET old == NonBlank(store[INDEX_PATH].content)
              new == NonBlank(store'[INDEX_PATH].content)
          IN  /\ Len(new) = Len(old) + 1
              /\ SubSeq(new, 1, Len(old)) = old]_vars

\* The write of the log on path that the repository committed, if any.
Committed(log, path) ==
    \E i \in DOMAIN log : log[i].op \in Writes /\ log[i].path = path /\ log[i].out = "200"

\* C3: add_til returns its success text only when both the entry file and
\* til/index.md were written; when the entry file was written and the index
\* step failed it returns an error text, and the entry file stays in the
\* repository, written once and never deleted.
C3_NoPartialSuccess ==
    \A p \in Clients :
        (pc[p] = "done" /\ call[p].tool = "add_til") =>
            /\ result[p].kind = "success" =>
                  Committed(ops[p], loc[p].file_path) /\ Committed(ops[p], INDEX_PATH)
            /\ (Committed(ops[p], loc[p].file_path) /\ ~Committed(ops[p], INDEX_PATH)) =>
                  /\ ErrorText(result[p])
                  /\ loc[p].file_path \in Files
                  /\ Len(SelectSeq(ops[p], LAMBDA o : o.op \in Writes
                                                       /\ o.path = loc[p].file_path)) = 1

\* given is valid up to case and surrounding whitespace.
Accepts(given, valid) ==
    \E v \in valid : \E a \in 0..Len(given) :
        /\ a + Len(v) <= Len(given)
        /\ \A i \in 1..a : given[i] \in Whitespace
        /\ \A i \in (a + Len(v) + 1)..Len(given) : given[i] \in Whitespace
        /\ \A i \in 1..Len(v) : given[a + i] = v[i] \/ LowerChar(given[a + i]) = v[i]

\* The value of valid that given stands for.
Meant(given, valid) == CHOOSE v \in valid : Accepts(given, {v})

IsInfix(x, y) == \E i \in 0..(Len(y) - Len(x)) : SubSeq(y, i + 1, i + Len(x)) = x

\* What the claim says of client p's invocation with the value given for the
\* closed set valid, whose sorted listing is listing.
ValidationHolds(p, what, given, valid, listing) ==
    IF Accepts(given, valid)
    THEN /\ result[p].kind # "invalid"
         /\ pc[p] = "done" => ops[p] # <<>>
         /\ call[p].tool \in AddTools =>
               \A i \in DOMAIN ops[p] :
                   ops[p][i].by = "_create_or_update_file" /\ ops[p][i].path # INDEX_PATH =>
                       IsInfix(<<"/">> \o Meant(given, valid) \o <<"/">>, ops[p][i].path)
    ELSE /\ ops[p] = <<>>
         /\ result[p].text =
               << <<"Invalid ", what, " '">> \o given \o <<"'. Must be one of: ">> \o listing >>

\* C5: add_prompt, add_pattern and list_entries called with a value outside
\* the closed set (after lowercasing and trimming) issue no remote call, leave
\* the repository as it is and return the message that lists the valid values
\* in sorted order; a value that is valid up to case and surrounding
\* whitespace is accepted and used in its normal form.
C5_ValidationShortCircuits ==
    [][\A p \in Clients :
          call'[p].tool \in {"add_prompt", "add_pattern", "list_entries"} =>
              /\ (result'[p].kind = "invalid" /\ ncalls' = ncalls + 1) => store' = store
              /\ call'[p].tool = "add_prompt" =>
                    ValidationHolds(p, "category", call[p].category, VALID_PROMPT_CATEGORIES,
                        S_coding \o <<", ">> \o S_documentation \o <<", ">> \o S_general
                            \o <<", ">> \o S_infrastructure)'
              /\ call'[p].tool = "add_pattern" =>
                    ValidationHolds(p, "category", call[p].category, VALID_PATTERN_CATEGORIES,
                        S_agent \o <<", ">> \o S_cloud \o <<", ">> \o S_devops)'
              /\ call'[p].tool = "list_entries" =>
                    ValidationHolds(p, "section", call[p].section, VALID_SECTIONS,
                        S_all \o <<", ">> \o S_patterns \o <<", ">> \o S_prompts
                            \o <<", ">> \o S_til)']_vars

\* C5 witness: one client was refused a category outside the set, the other
\* had " Coding\n" accepted and wrote under ai/prompts/coding/.
C5_Witness ==
    \E p, q \in Clients :
        /\ pc[p] = "done" /\ call[p].tool = "add_prompt"
        /\ call[p].category = <<"c","s","s">> /\ result[p].kind = "invalid"
        /\ pc[q] = "done" /\ call[q].tool = "add_prompt" /\ result[q].kind = "success"
        /\ call[q].category # S_coding
        /\ (<<"ai", "/", "prompts", "/">> \o S_coding \o <<"/", "f","i","x","-","1", ".md">>)
               \in Files

\* Client p's log holds an upsert's read of path that returned the token sha,
\* and after it a write on path that reached the repository and ended out.
ReadThenWrote(p, path, sha, out) ==
    \E i, j \in DOMAIN ops[p] :
        /\ i < j
        /\ ops[p][i].by = "_create_or_update_file" /\ ops[p][i].op = "get_contents"
        /\ ops[p][i].path = path /\ ops[p][i].sha = Some(sha) /\ ops[p][i].out = "200"
        /\ ops[p][j].op \in Writes /\ ops[p][j].path = path /\ ops[p][j].out = out

\* The content client p's log wrote on path.
Wrote(p, path) ==
    ops[p][CHOOSE j \in DOMAIN ops[p] : ops[p][j].op \in Writes /\ ops[p][j].path = path].content

Tokens == 1..(2 * MaxCalls + 1)

\* C6: when two upserts of one existing path read the same sha before either
\* writes, the repository commits one update only; the other is refused as
\* stale, its handler returns an error text and not success, and the content
\* of the first writer stays.
C6_StaleUpdateRejected ==
    /\ \A p \in Clients : \A i \in DOMAIN ops[p] :
          (ops[p][i].op = "update_file" /\ ops[p][i].out = "409") =>
              /\ i = Len(ops[p])
              /\ pc[p] = "done"
              /\ ErrorText(result[p])
    /\ \A p, q \in Clients : \A path \in Files : \A sha \in Tokens :
          (p # q /\ ReadThenWrote(p, path, sha, "200")) =>
              /\ ~ReadThenWrote(q, path, sha, "200")
              /\ pc[q] = "write" /\ loc[q].path = path /\ loc[q].existing = Some(sha) =>
                    Refusal(WriteCall(path, loc[q].content, loc[q].existing)) = Some(Conflict)
              /\ ReadThenWrote(q, path, sha, "409") =>
                    /\ store[path].sha > sha
                    /\ store[path].sha = sha + 1 => Some(store[path].content) = Wrote(p, path)

\* C6 witness: both clients read sha 1 of til/index.md, one update was
\* committed, the other was refused and its handler returned an error text.
C6_Witness ==
    \E p, q \in Clients :
        /\ p # q
        /\ ReadThenWrote(p, INDEX_PATH, 1, "200")
        /\ ReadThenWrote(q, INDEX_PATH, 1, "409")
        /\ pc[q] = "done" /\ result[q].kind = "api_error"

\* C7: an add handler called twice with the same inputs on the same date,
\* without remote failure, derives the same path both times; the second call
\* takes the update branch, succeeds with the text (and URL) of the first,
\* and writes the content the first wrote.
C7_RepeatIsIdempotent ==
    \A p \in Clients :
        (/\ pc[p] = "done" /\ call[p].tool \in AddTools
         /\ prev[p] # None
         /\ prev[p][1].call.tool = call[p].tool
         /\ prev[p][1].call = call[p]
         /\ prev[p][1].date_str = loc[p].date_str
         /\ Clean(ops[p])) =>
            /\ loc[p].file_path = prev[p][1].file_path
            /\ result[p].kind = "success"
            /\ result[p] = prev[p][1].result
            /\ ops[p][1].path = prev[p][1].file_path /\ ops[p][1].out = "200"
            /\ ops[p][2].op = "update_file" /\ ops[p][2].path = prev[p][1].file_path
            /\ ops[p][2].out = "200"
            /\ ops[p][2].content = Some(prev[p][1].full_content)
            /\ \A i \in DOMAIN ops[p] : ops[p][i].op = "create_file" => ops[p][i].path = INDEX_PATH

\* C7 witness: a client has finished add_til twice with one title on one date.
C7_Witness ==
    \E p \in Clients :
        /\ pc[p] = "done" /\ call[p].tool = "add_til" /\ result[p].kind = "success"
        /\ prev[p] # None
        /\ prev[p][1].call.tool = "add_til"
        /\ prev[p][1].call = call[p]
        /\ prev[p][1].date_str = loc[p].date_str

H_til == <<"## ", "T","i","l">>
H_prompts == <<"## ", "P","r","o","m","p","t","s">>
H_patterns == <<"## ", "P","a","t","t","e","r","n","s">>

\* The listing of client p found no subtree at root.
Missing(p, root) ==
    \E i \in DOMAIN ops[p] :
        /\ ops[p][i].by = "_list_files_recursive"
        /\ ops[p][i].path = root /\ ops[p][i].out = "404"

\* In text, header h is followed by the no-entries line when missing, by an
\* entry otherwise.
BlockAt(text, h, missing) ==
    \E i \in DOMAIN text :
        /\ text[i] = h
        /\ i = 1 \/ text[i - 1] = NL
        /\ i + 1 \in DOMAIN text
        /\ IF missing THEN text[i + 1] = <<"  (no entries yet)">>
           ELSE text[i + 1] # <<>> /\ text[i + 1][1] = "- **"

\* C8: a finished listing of section "all" holds the three headers in the
\* order til, prompts, patterns, each starting its block; a section whose
\* subtree is missing has "(no entries yet)" under its header, and the other
\* sections keep their entries.
C8_ListAllFixedOrder ==
    \A p \in Clients :
        (/\ pc[p] = "done" /\ call[p].tool = "list_entries"
         /\ Accepts(call[p].section, {S_all})
         /\ result[p].kind = "listing") =>
            /\ SelectSeq(result[p].text, LAMBDA l : l # <<>> /\ l[1] = "## ")
                   = <<H_til, H_prompts, H_patterns>>
            /\ result[p].text[1] = H_til
            /\ BlockAt(result[p].text, H_til, Missing(p, <<"til", "/">>))
            /\ BlockAt(result[p].text, H_prompts, Missing(p, <<"ai", "/", "prompts", "/">>))
            /\ BlockAt(result[p].text, H_patterns, Missing(p, <<"patterns", "/">>))

\* C8 witness: a listing of "all" with entries under til and patterns and no
\* prompts subtree.
C8_Witness ==
    \E p \in Clients :
        /\ pc[p] = "done" /\ call[p].tool = "list_entries" /\ result[p].kind = "listing"
        /\ Accepts(call[p].section, {S_all})
        /\ ~Missing(p, <<"til", "/">>)
        /\ Missing(p, <<"ai", "/", "prompts", "/">>)
        /\ ~Missing(p, <<"patterns", "/">>)

\* The lines of a search text that open a match.
MatchLines(text) == SelectSeq(text, LAMBDA l : l # <<>> /\ l[1] = "- **")

\* C9: a search that the remote answered with n results lists min(n, 20)
\* matches, the first ones in order, fetched one file per match listed and no
\* more; the header counts the matches listed; a match whose file could not
\* be fetched is listed with the placeholder snippet; with no results the
\* text is exactly "No results found for '<query>'."
C9_SearchCappedAtTwenty ==
    \A p \in Clients :
        (pc[p] = "done" /\ call[p].tool = "search_pkb" /\ ops[p][1].out = "200") =>
            LET n == ops[p][1].ret
                text == result[p].text
                k == Len(MatchLines(text))
            IN  /\ k <= 20
                /\ k = IF n < 20 THEN n ELSE 20
                /\ Len(ops[p]) = 1 + k
                /\ IF n = 0
                   THEN text = << <<"No results found for '", call[p].query, "'.">> >>
                   ELSE /\ result[p].kind = "found"
                        /\ text[1] = <<"Found ", ToString(k), " result(s) for '",
                                       call[p].query, "':">>
                        /\ \A i \in 1..k :
                              /\ MatchLines(text)[i] = <<"- **", "hit-", ToString(i), "**">>
                              /\ ops[p][1 + i].path = <<"hit-", ToString(i)>>
                              /\ ops[p][1 + i].out = "fail" =>
                                    text[4 * i + 1] =
                                        <<"  Snippet: ", "(unable to retrieve snippet)">>

\* C9 witness: the remote yielded more than 20 results, 20 are listed, and
\* the file of the 20th could not be fetched.
C9_Witness ==
    \E p \in Clients :
        /\ pc[p] = "done" /\ call[p].tool = "search_pkb" /\ result[p].kind = "found"
        /\ ops[p][1].ret > 20
        /\ Len(MatchLines(result[p].text)) = 20
        /\ ops[p][21].out = "fail"

\* C10: no write is retried: add_prompt and add_pattern issue at most one
\* write, add_til at most two (the entry file, then til/index.md), search_pkb
\* and list_entries none; in an add handler the first remote failure is the
\* last remote call, and the invocation ends with an error text.
C10_NoRetries ==
    \A p \in Clients :
        LET w == WriteOps(ops[p])
        IN  /\ call[p].tool \in {"add_prompt", "add_pattern"} => Len(w) <= 1
            /\ call[p].tool = "add_til" =>
                  /\ Len(w) <= 2
                  /\ Len(w) >= 1 => w[1].path = loc[p].file_path
                  /\ Len(w) = 2 => w[2].path = INDEX_PATH
            /\ call[p].tool \in {"search_pkb", "list_entries"} => Len(w) = 0
            /\ call[p].tool \in AddTools =>
                  \A i \in DOMAIN ops[p] :
                      Failed(ops[p][i]) =>
                          /\ i = Len(ops[p])
                          /\ pc[p] = "done"
                          /\ ErrorText(result[p])

====
